---- MODULE Spec2Model ----
(***************************************************************************)
(* Model of packages/task/src/browser/task-problem-matcher-registry.ts     *)
(* (ProblemMatcherRegistry) on the JavaScript event loop.                  *)
(*                                                                         *)
(* A name is a sequence of tokens: the token "$" is the character '$',     *)
(* every other token is a run of characters without '$'.  So               *)
(* <<"$", "foo">> is the string "$foo" and <<>> is the empty string.       *)
(*                                                                         *)
(* Promise reactions are jobs in a FIFO microtask queue.  One await of a   *)
(* settled promise costs one job.  Calls from outside (register, onReady)  *)
(* may happen between any two jobs.                                        *)
(***************************************************************************)
EXTENDS Integers, Sequences, FiniteSets, TLC

VARIABLES
    matchers,          \* this.matchers: ordered map, a sequence of matchers with unique names
    readyPromise,      \* this.readyPromise: "undefined" or "resolved"
    filled,            \* history: fillDefaults has run
    problemPatterns,   \* what problemPatternRegistry.get returns for each name
    patternState,      \* state of the promise of problemPatternRegistry.onReady()
    patternReactions,  \* reactions registered on that promise while it is pending
    microtasks,        \* the microtask queue
    calls,             \* the register calls: position, contribution, resolved matcher
    waiter,            \* a caller of onReady(): position, what it got, what it saw
    arg,               \* input of a stand-alone resolution of fileLocation
    out,               \* its result
    notifications,     \* NotificationManagerImpl.notifications: messageId -> notification
    resultPromises,    \* NotificationManagerImpl.resultPromises: messageId -> its Deferred
    deferreds,         \* the Deferreds created so far: pending, or resolved with a value
    timers,            \* the timeouts set by showMessage that have not fired yet
    listeners,         \* the cancellation listeners registered by showProgress
    cancelled,         \* the cancellation tokens that have been cancelled
    openState,         \* NotificationManagerImpl.openState
    returned,          \* the show calls made so far: the promise each returned and the
                       \* Deferred that settles it
    tasks,             \* NotificationExtImpl: the withProgress calls and their tasks
    rpc,               \* the calls of the proxy that NotificationMainImpl has yet to handle
    starting,          \* the $startProgress calls that await messageService.showProgress
    progressMap,       \* NotificationMainImpl.progressMap: id -> Progress
    progress2Work,     \* NotificationMainImpl.progress2Work: id -> cumulative work
    handles,           \* the Progress handles that messageService.showProgress has made
    reports            \* the number of $updateProgress calls made so far

notifyVars == <<notifications, resultPromises, deferreds, timers, listeners, cancelled,
                openState, returned>>

bridgeVars == <<tasks, rpc, starting, progressMap, progress2Work, handles, reports>>

vars == <<matchers, readyPromise, filled, problemPatterns, patternState, patternReactions,
          microtasks, calls, waiter, arg, out, notifyVars, bridgeVars>>

registryVars == <<matchers, readyPromise, filled, problemPatterns, patternState, patternReactions,
                  microtasks, calls, waiter>>

----------------------------------------------------------------------------
(* Bounds *)

MaxCalls == 2
MaxArrayLen == 3
MaxShows == 2
MaxTasks == 1
MaxReports == 2

----------------------------------------------------------------------------
(* Values *)

WorkspaceFolder == "${workspaceFolder}"

\* the tokens a fileLocation may hold: the three kinds, a token that is no kind,
\* the empty string and a path
Tokens == {"absolute", "relative", "autoDetect", "bogus", "", "/src"}

AbsentFileLocation == [kind |-> "absent", token |-> "", items |-> <<>>]
StringFileLocation(t) == [kind |-> "string", token |-> t, items |-> <<>>]
ArrayFileLocation(s) == [kind |-> "array", token |-> "", items |-> s]

AbsentPattern == [kind |-> "absent", ref |-> "", ps |-> <<>>]
StringPattern(r) == [kind |-> "string", ref |-> r, ps |-> <<>>]
InlinePattern(p) == [kind |-> "inline", ref |-> "", ps |-> <<p>>]
ArrayPattern(s) == [kind |-> "array", ref |-> "", ps |-> s]

\* what problemPatternRegistry.get returns: undefined, one pattern or an array
NoPattern == [kind |-> "undefined", ps |-> <<>>]
OnePattern(p) == [kind |-> "single", ps |-> <<p>>]
ManyPatterns(s) == [kind |-> "array", ps |-> s]

DefaultNames == <<"msCompile", "lessCompile", "gulp-tsc", "jshint", "jshint-stylish",
                  "eslint-compact", "eslint-stylish", "go">>

DefaultNameSet == {DefaultNames[i] : i \in 1..Len(DefaultNames)}

PatternNames == DefaultNameSet \cup {"p3", "p1", "nope"}

\* a pattern as the pattern registry holds it
RegisteredPattern(p) == [regexp |-> p]

\* the content of the pattern registry once it is ready; the default names in
\* `missing` are not registered
PatternTable(missing) ==
    [n \in PatternNames |->
        IF n = "p3" THEN ManyPatterns(<<RegisteredPattern("p3a"), RegisteredPattern("p3b"),
                                        RegisteredPattern("p3c")>>)
        ELSE IF n = "p1" THEN OnePattern(RegisteredPattern("p1a"))
        ELSE IF n = "nope" \/ n \in missing THEN NoPattern
        ELSE OnePattern(RegisteredPattern(n))]

----------------------------------------------------------------------------
(* Enum parsers of ../common *)

\* FileLocationKind.fromString: the kind a token names, "undefined" for any other
FileLocationKind_fromString(t) ==
    IF t \in {"absolute", "relative", "autoDetect"} THEN t ELSE "undefined"

\* ApplyToKind.fromString: the kind a token names, "undefined" for any other
ApplyToKind_fromString(t) ==
    IF t \in {"allDocuments", "openDocuments", "closedDocuments"} THEN t ELSE "undefined"

\* ProblemPattern.fromProblemPatternContribution: the pattern of an inline contribution
ProblemPattern_fromProblemPatternContribution(p) == [regexp |-> p]

----------------------------------------------------------------------------
(* Contribution resolution *)

\* register with the check `matcher.name === undefined`: the empty name passes
NameMissingEmptyPasses(c) == ~c.hasName

\* !matcher.name
NameMissing(c) == ~c.hasName \/ c.name = <<>>

\* getFileLocationKindAndPrefix without the length conditions on the array form
getFileLocationKindAndPrefixNoLength(fl) ==
    LET default == [fileLocation |-> "relative", filePrefix |-> WorkspaceFolder] IN
    IF fl.kind = "absent" THEN default
    ELSE IF fl.kind = "array" THEN
        IF Len(fl.items) > 0 THEN
            LET locationKind == FileLocationKind_fromString(fl.items[1]) IN
            IF locationKind = "absolute"
            THEN [default EXCEPT !.fileLocation = locationKind]
            ELSE IF Len(fl.items) >= 2 /\ locationKind = "relative" /\ fl.items[2] # ""
            THEN [fileLocation |-> locationKind, filePrefix |-> fl.items[2]]
            ELSE default
        ELSE default
    ELSE
        LET locationKind == FileLocationKind_fromString(fl.token) IN
        IF locationKind # "undefined"
        THEN [default EXCEPT !.fileLocation = locationKind]
        ELSE default

\* getFileLocationKindAndPrefix that takes a single token only when it is "absolute"
getFileLocationKindAndPrefixAbsoluteOnly(fl) ==
    LET default == [fileLocation |-> "relative", filePrefix |-> WorkspaceFolder] IN
    IF fl.kind = "absent" THEN default
    ELSE IF fl.kind = "array" THEN
        IF Len(fl.items) > 0 THEN
            LET locationKind == FileLocationKind_fromString(fl.items[1]) IN
            IF Len(fl.items) = 1 /\ locationKind = "absolute"
            THEN [default EXCEPT !.fileLocation = locationKind]
            ELSE IF Len(fl.items) = 2 /\ locationKind = "relative" /\ fl.items[2] # ""
            THEN [fileLocation |-> locationKind, filePrefix |-> fl.items[2]]
            ELSE default
        ELSE default
    ELSE
        LET locationKind == FileLocationKind_fromString(fl.token) IN
        IF locationKind = "absolute"
        THEN [default EXCEPT !.fileLocation = locationKind]
        ELSE default

getFileLocationKindAndPrefix(fl) ==
    LET default == [fileLocation |-> "relative", filePrefix |-> WorkspaceFolder] IN
    IF fl.kind = "absent" THEN default
    ELSE IF fl.kind = "array" THEN
        IF Len(fl.items) > 0 THEN
            LET locationKind == FileLocationKind_fromString(fl.items[1]) IN
            IF Len(fl.items) = 1 /\ locationKind = "absolute"
            THEN [default EXCEPT !.fileLocation = locationKind]
            ELSE IF Len(fl.items) = 2 /\ locationKind = "relative" /\ fl.items[2] # ""
            THEN [fileLocation |-> locationKind, filePrefix |-> fl.items[2]]
            ELSE default
        ELSE default
    ELSE
        LET locationKind == FileLocationKind_fromString(fl.token) IN
        IF locationKind # "undefined"
        THEN [default EXCEPT !.fileLocation = locationKind]
        ELSE default

\* what stands for the patterns when the resolution threw a TypeError
Threw == <<[regexp |-> "TypeError"]>>

\* ...v as the arguments of push: the elements of an array; a value that is not
\* iterable (one pattern object, undefined) throws
Spread(v) == IF v.kind = "array" THEN v.ps ELSE Threw

\* patterns.push(...registeredPattern) whenever there is a registered pattern, without
\* Array.isArray
PushRegisteredSpreadsAny(registeredPattern) ==
    IF registeredPattern.kind # "undefined" THEN Spread(registeredPattern) ELSE <<>>

\* patterns.push(registeredPattern[0]) for an array: only its first pattern
PushRegisteredFirstOnly(registeredPattern) ==
    IF registeredPattern.kind = "array" THEN <<registeredPattern.ps[1]>>
    ELSE IF registeredPattern.kind = "single" THEN registeredPattern.ps
    ELSE <<>>

\* patterns.push(registeredPattern) without the check that there is one
PushRegisteredUnchecked(registeredPattern) ==
    IF registeredPattern.kind = "array" THEN registeredPattern.ps
    ELSE IF registeredPattern.kind = "single" THEN registeredPattern.ps
    ELSE <<[regexp |-> "undefined"]>>

\* patterns.push(...) of what problemPatternRegistry.get returned
PushRegistered(registeredPattern) ==
    IF registeredPattern.kind = "array" THEN Spread(registeredPattern)
    ELSE IF registeredPattern.kind = "single" THEN registeredPattern.ps
    ELSE <<>>

\* the patterns of a contribution whose pattern is not a string
InlinePatterns(pattern) ==
    IF pattern.kind \in {"array", "inline"}
    THEN [i \in 1..Len(pattern.ps) |-> ProblemPattern_fromProblemPatternContribution(pattern.ps[i])]
    ELSE <<>>

\* the record getProblemMatcherFromContribution assembles
ProblemMatcher(c, patterns) ==
    LET loc == getFileLocationKindAndPrefix(c.fileLocation)
        applyTo == ApplyToKind_fromString(c.applyTo)
    IN  [name |-> c.name,
         label |-> c.label,
         applyTo |-> IF applyTo # "undefined" THEN applyTo ELSE "allDocuments",
         fileLocation |-> loc.fileLocation,
         filePrefix |-> loc.filePrefix,
         pattern |-> ManyPatterns(patterns)]

----------------------------------------------------------------------------
(* The name-to-matcher map *)

Keys(ms) == {ms[i].name : i \in 1..Len(ms)}

Index(ms, k) == CHOOSE i \in 1..Len(ms) : ms[i].name = k

\* add that keeps the entry a name already has
addKeepsFirst(ms, matcher) ==
    IF matcher.name \in Keys(ms) THEN ms ELSE Append(ms, matcher)

\* this.matchers[matcher.name] = matcher: a new key goes last, an old key keeps its place
add(ms, matcher) ==
    IF matcher.name \in Keys(ms)
    THEN [ms EXCEPT ![Index(ms, matcher.name)] = matcher]
    ELSE Append(ms, matcher)

\* this.matchers[k]: <<m>> when the key is there, <<>> for undefined
Lookup(ms, k) == IF k \in Keys(ms) THEN <<ms[Index(ms, k)]>> ELSE <<>>

get(ms, name) ==
    IF Len(name) > 0 /\ name[1] = "$"
    THEN Lookup(ms, Tail(name))
    ELSE Lookup(ms, name)

\* one element per key, each what get returns for the key
getAll(ms) == [i \in 1..Len(ms) |-> get(ms, ms[i].name)]

DefaultLabels ==
    [n \in DefaultNameSet |->
        CASE n = "msCompile" -> "Microsoft compiler problems"
          [] n = "lessCompile" -> "Less problems"
          [] n = "gulp-tsc" -> "Gulp TSC Problems"
          [] n = "jshint" -> "JSHint problems"
          [] n = "jshint-stylish" -> "JSHint stylish problems"
          [] n = "eslint-compact" -> "ESLint compact problems"
          [] n = "eslint-stylish" -> "ESLint stylish problems"
          [] n = "go" -> "Go problems"]

\* an entry of fillDefaults with `|| []` after the lookup of its pattern
DefaultMatcherOrEmpty(n, table) ==
    [name |-> <<n>>,
     label |-> DefaultLabels[n],
     applyTo |-> IF n = "gulp-tsc" THEN "closedDocuments" ELSE "allDocuments",
     fileLocation |-> IF n \in {"gulp-tsc", "go"} THEN "relative" ELSE "absolute",
     filePrefix |-> IF n \in {"gulp-tsc", "eslint-compact", "go"} THEN WorkspaceFolder ELSE "undefined",
     pattern |-> IF table[n].kind = "undefined" THEN ManyPatterns(<<>>) ELSE table[n]]

\* one entry of fillDefaults; its pattern is what problemPatternRegistry.get returns
DefaultMatcher(n, table) ==
    [name |-> <<n>>,
     label |-> DefaultLabels[n],
     applyTo |-> IF n = "gulp-tsc" THEN "closedDocuments" ELSE "allDocuments",
     fileLocation |-> IF n \in {"gulp-tsc", "go"} THEN "relative" ELSE "absolute",
     filePrefix |-> IF n \in {"gulp-tsc", "eslint-compact", "go"} THEN WorkspaceFolder ELSE "undefined",
     pattern |-> table[n]]

\* fillDefaults without its last entry
DefaultsToFillWithoutGo == SubSeq(DefaultNames, 1, Len(DefaultNames) - 1)

\* the names fillDefaults adds, in its order
DefaultsToFill == DefaultNames

RECURSIVE AddAll(_, _, _)
AddAll(ms, names, table) ==
    IF names = <<>> THEN ms
    ELSE AddAll(add(ms, DefaultMatcher(Head(names), table)), Tail(names), table)

\* fillDefaults that yields after its fourth entry
fillDefaultsFirstHalf(ms, table) == AddAll(ms, SubSeq(DefaultNames, 1, 4), table)

fillDefaults(ms, table) == AddAll(ms, DefaultsToFill, table)

----------------------------------------------------------------------------
(* Inputs *)

NameInputs == {<<"foo">>, <<"$", "foo">>, <<"msCompile">>}

\* the contributions register is called with.  The fields the registry copies or parses
\* without looking further (label, applyTo, fileLocation) come in three styles; the third
\* is malformed: an applyTo that is no kind and a fileLocation array ["relative"].
Contribution(hasName, name, style, pattern) ==
    [hasName |-> hasName,
     name |-> name,
     label |-> IF style = 1 THEN "one" ELSE IF style = 2 THEN "two" ELSE "three",
     applyTo |-> IF style = 1 THEN "" ELSE IF style = 2 THEN "closedDocuments" ELSE "bogus",
     fileLocation |-> IF style = 1 THEN AbsentFileLocation
                      ELSE IF style = 2 THEN ArrayFileLocation(<<"absolute">>)
                      ELSE ArrayFileLocation(<<"relative">>),
     pattern |-> pattern]

\* each form of pattern, with the style it comes in
Bodies == {<<1, AbsentPattern>>, <<2, StringPattern("p3")>>, <<1, StringPattern("p1")>>,
           <<3, StringPattern("nope")>>, <<1, ArrayPattern(<<"c1", "c2">>)>>}

\* named contributions, one with the empty name and one without a name
Contributions ==
    {Contribution(TRUE, n, b[1], b[2]) : n \in NameInputs, b \in Bodies}
    \cup {Contribution(TRUE, <<>>, 2, StringPattern("p3")),
          Contribution(FALSE, <<>>, 2, StringPattern("p3"))}

NoContribution == Contribution(FALSE, <<>>, 1, AbsentPattern)
NoMatcher == ProblemMatcher(NoContribution, <<>>)

\* the pattern registries the registry may be built on: with every default pattern, or
\* with one of them not registered
PatternTables == {PatternTable({}), PatternTable({"jshint"})}

RECURSIVE SeqsUpTo(_, _)
SeqsUpTo(S, n) ==
    IF n = 0 THEN {<<>>}
    ELSE LET shorter == SeqsUpTo(S, n - 1)
         IN  shorter \cup {Append(q, x) : q \in {r \in shorter : Len(r) = n - 1}, x \in S}

FileLocationInputs ==
    {AbsentFileLocation}
    \cup {StringFileLocation(t) : t \in Tokens}
    \cup {ArrayFileLocation(q) : q \in SeqsUpTo(Tokens, MaxArrayLen)}

NoResult == [fileLocation |-> "none", filePrefix |-> "none"]

----------------------------------------------------------------------------
(* Jobs *)

InitThen == [kind |-> "initThen", id |-> 0]
ResolveJob(i) == [kind |-> "resolve", id |-> i]
RegisterJob(i) == [kind |-> "register", id |-> i]
WaiterJob == [kind |-> "waiter", id |-> 0]

\* a reaction that does not wait for the promise: the job is queued at once
ThenOnPatternReadyNoWait(job) ==
    /\ microtasks' = Append(microtasks, job)
    /\ UNCHANGED patternReactions

\* a reaction on the promise of problemPatternRegistry.onReady(): a job now when the
\* promise is resolved, a registered reaction while it is pending
ThenOnPatternReady(job) ==
    IF patternState = "resolved"
    THEN /\ microtasks' = Append(microtasks, job)
         /\ UNCHANGED patternReactions
    ELSE /\ patternReactions' = Append(patternReactions, job)
         /\ UNCHANGED microtasks

----------------------------------------------------------------------------
(* Initial state: the registry is constructed and init() has run *)

IdleCall == [pc |-> "idle", c |-> NoContribution, m |-> NoMatcher]
IdleWaiter == [pc |-> "idle", got |-> "undefined", sawFilled |-> FALSE]

InitRegistry ==
    /\ matchers = <<>>
    /\ readyPromise = "undefined"
    /\ filled = FALSE
    /\ problemPatterns \in PatternTables
    /\ patternState \in {"pending", "resolved"}
    /\ patternReactions = IF patternState = "pending" THEN <<InitThen>> ELSE <<>>
    /\ microtasks = IF patternState = "pending" THEN <<>> ELSE <<InitThen>>
    /\ calls = [i \in 1..MaxCalls |-> IdleCall]
    /\ waiter = IdleWaiter

\* the notification manager after construction: nothing shown
InitManager ==
    /\ notifications = <<>>
    /\ resultPromises = <<>>
    /\ deferreds = <<>>
    /\ timers = {}
    /\ listeners = {}
    /\ cancelled = {}
    /\ openState = FALSE
    /\ returned = <<>>

\* a withProgress call that has not been made
IdleTask ==
    [pc |-> "idle", id |-> 0, outcome |-> "none", stops |-> 0, cancels |-> 0,
     result |-> "none"]

\* the plugin side and NotificationMainImpl after construction: no progress
InitBridge ==
    /\ tasks = [i \in 1..MaxTasks |-> IdleTask]
    /\ rpc = <<>>
    /\ starting = {}
    /\ progressMap = <<>>
    /\ progress2Work = <<>>
    /\ handles = <<>>
    /\ reports = 0

Init ==
    /\ InitRegistry
    /\ arg = AbsentFileLocation
    /\ out = NoResult
    /\ InitManager
    /\ InitBridge

----------------------------------------------------------------------------
(* Actions of the registry *)

\* the promise of problemPatternRegistry.onReady() resolves: its reactions become jobs,
\* in the order they were registered
PatternRegistryReady ==
    /\ patternState = "pending"
    /\ patternState' = "resolved"
    /\ microtasks' = microtasks \o patternReactions
    /\ patternReactions' = <<>>
    /\ UNCHANGED <<matchers, readyPromise, filled, problemPatterns, calls, waiter, arg, out, notifyVars, bridgeVars>>

\* register(c), up to its first await.  Calls are numbered in the order they are made.
RegisterCall(i, c) ==
    /\ calls[i].pc = "idle"
    /\ \A j \in 1..(i - 1) : calls[j].pc # "idle"
    /\ IF NameMissing(c)
       THEN \* console.error and return: the promise fulfils
            /\ calls' = [calls EXCEPT ![i] = [pc |-> "done", c |-> c, m |-> NoMatcher]]
            /\ UNCHANGED <<microtasks, patternReactions>>
       ELSE IF c.pattern.kind = "string" /\ c.pattern.ref # ""
       THEN \* await this.problemPatternRegistry.onReady()
            /\ calls' = [calls EXCEPT ![i] = [pc |-> "awaitPattern", c |-> c, m |-> NoMatcher]]
            /\ ThenOnPatternReady(ResolveJob(i))
       ELSE \* getProblemMatcherFromContribution returns without awaiting;
            \* register awaits its promise
            /\ calls' = [calls EXCEPT ![i] =
                            [pc |-> "awaitMatcher", c |-> c,
                             m |-> ProblemMatcher(c, InlinePatterns(c.pattern))]]
            /\ microtasks' = Append(microtasks, RegisterJob(i))
            /\ UNCHANGED patternReactions
    /\ UNCHANGED <<matchers, readyPromise, filled, problemPatterns, patternState, waiter, arg, out, notifyVars, bridgeVars>>

\* the callback of init(): fillDefaults, then readyPromise is set
RunInitThen ==
    /\ microtasks # <<>>
    /\ Head(microtasks).kind = "initThen"
    /\ microtasks' = Tail(microtasks)
    /\ matchers' = fillDefaults(matchers, problemPatterns)
    /\ readyPromise' = "resolved"
    /\ filled' = TRUE
    /\ UNCHANGED <<problemPatterns, patternState, patternReactions, calls, waiter, arg, out, notifyVars, bridgeVars>>

\* getProblemMatcherFromContribution after its await: the lookup of the pattern name and
\* the assembly of the matcher; its promise resolves and register's await gets its job
RunResolve(i) ==
    /\ microtasks # <<>>
    /\ Head(microtasks) = ResolveJob(i)
    /\ LET c == calls[i].c
           registeredPattern == problemPatterns[c.pattern.ref]
           patterns == PushRegistered(registeredPattern)
       IN  IF patterns = Threw
           THEN \* the error rejects the promise of getProblemMatcherFromContribution and,
                \* through register's await, the promise of register
                /\ calls' = [calls EXCEPT ![i].pc = "rejected"]
                /\ microtasks' = Tail(microtasks)
           ELSE /\ calls' = [calls EXCEPT ![i] =
                                [pc |-> "awaitMatcher", c |-> c,
                                 m |-> ProblemMatcher(c, patterns)]]
                /\ microtasks' = Append(Tail(microtasks), RegisterJob(i))
    /\ UNCHANGED <<matchers, readyPromise, filled, problemPatterns, patternState,
                   patternReactions, waiter, arg, out, notifyVars, bridgeVars>>

\* register after its await: this.add(problemMatcher); the promise of register fulfils
RunRegister(i) ==
    /\ microtasks # <<>>
    /\ Head(microtasks) = RegisterJob(i)
    /\ microtasks' = Tail(microtasks)
    /\ matchers' = add(matchers, calls[i].m)
    /\ calls' = [calls EXCEPT ![i].pc = "done"]
    /\ UNCHANGED <<readyPromise, filled, problemPatterns, patternState, patternReactions,
                   waiter, arg, out, notifyVars, bridgeVars>>

\* a caller evaluates `await registry.onReady()`: onReady returns this.readyPromise, and
\* awaiting undefined or a resolved promise costs one job
OnReadyCall ==
    /\ waiter.pc = "idle"
    /\ waiter' = [pc |-> "awaiting", got |-> readyPromise, sawFilled |-> FALSE]
    /\ microtasks' = Append(microtasks, WaiterJob)
    /\ UNCHANGED <<matchers, readyPromise, filled, problemPatterns, patternState,
                   patternReactions, calls, arg, out, notifyVars, bridgeVars>>

\* the caller's await completes; what follows it sees the map as it is now
RunWaiter ==
    /\ microtasks # <<>>
    /\ Head(microtasks) = WaiterJob
    /\ microtasks' = Tail(microtasks)
    /\ waiter' = [waiter EXCEPT !.pc = "done", !.sawFilled = filled]
    /\ UNCHANGED <<matchers, readyPromise, filled, problemPatterns, patternState,
                   patternReactions, calls, arg, out, notifyVars, bridgeVars>>

Next ==
    \/ PatternRegistryReady
    \/ \E i \in 1..MaxCalls, c \in Contributions : RegisterCall(i, c)
    \/ RunInitThen
    \/ \E i \in 1..MaxCalls : RunResolve(i)
    \/ \E i \in 1..MaxCalls : RunRegister(i)
    \/ OnReadyCall
    \/ RunWaiter

Spec == Init /\ [][Next]_vars

----------------------------------------------------------------------------
(* Stand-alone resolution of fileLocation *)

InitResolve ==
    /\ InitRegistry
    /\ arg \in FileLocationInputs
    /\ out = NoResult
    /\ InitManager
    /\ InitBridge

Resolve ==
    /\ out = NoResult
    /\ out' = getFileLocationKindAndPrefix(arg)
    /\ UNCHANGED <<arg, matchers, readyPromise, filled, problemPatterns, patternState,
                   patternReactions, microtasks, calls, waiter, notifyVars, bridgeVars>>

NextResolve == Resolve

SpecResolve == InitResolve /\ [][NextResolve]_vars

TypeOK ==
    /\ patternState \in {"pending", "resolved"}
    /\ readyPromise \in {"undefined", "resolved"}
    /\ filled \in BOOLEAN
    /\ Len(matchers) = Cardinality(Keys(matchers))

----------------------------------------------------------------------------
(* NotificationManagerImpl: values *)

\* a Deferred that nobody has resolved yet
Pending == [state |-> "pending", value |-> "undefined"]

\* Deferred.resolve: settles a pending promise; a settled one keeps its value
resolve(ds, d, v) ==
    IF ds[d].state = "pending" THEN [ds EXCEPT ![d] = [state |-> "resolved", value |-> v]]
    ELSE ds

\* Map.delete
Delete(map, key) == [k \in DOMAIN map \ {key} |-> map[k]]

\* Map.set
Set(map, key, value) == [k \in DOMAIN map \cup {key} |-> IF k = key THEN value ELSE map[k]]

\* Array.prototype.join
RECURSIVE Join(_, _)
Join(s, sep) ==
    IF s = <<>> THEN ""
    ELSE IF Len(s) = 1 THEN s[1]
    ELSE s[1] \o sep \o Join(Tail(s), sep)

\* Array.from(new Set(actions)): the first occurrence of every action, in order
RECURSIVE Distinct(_)
Distinct(s) ==
    IF s = <<>> THEN <<>>
    ELSE LET init == Distinct(SubSeq(s, 1, Len(s) - 1))
             last == s[Len(s)]
         IN  IF \E k \in 1..Len(init) : init[k] = last THEN init ELSE Append(init, last)

\* the digest of the formatted message; the digest is one-to-one on the strings formatted
\* here, so the formatted string stands for it
getMessageId(m) == "[" \o m.type \o "] " \o m.text \o " : " \o Join(m.actions, " | ") \o ";"

toNotificationType(type) ==
    CASE type = "Error" -> "error"
      [] type = "Warning" -> "warning"
      [] type = "Progress" -> "progress"
      [] OTHER -> "info"

\* progress of a notification that reports none
NoProgress == -1

\* update.work && Math.round(update.work.done / update.work.total * 100), where
\* Math.round(x) is floor(x + 1/2); work is <<done, total>> or absent
toPlainProgress(update) ==
    IF update.work = <<>> THEN NoProgress
    ELSE (update.work[1] * 200 + update.work[2]) \div (2 * update.work[2])

\* the manager's fields as one value; result is what the last show call returned
Manager ==
    [notifications |-> notifications, resultPromises |-> resultPromises,
     deferreds |-> deferreds, timers |-> timers, listeners |-> listeners,
     openState |-> openState, result |-> 0]

----------------------------------------------------------------------------
(* NotificationManagerImpl: methods, as functions of the manager's fields *)

acceptKeepsPromise(st, messageId, action) ==
    IF messageId = "" THEN st
    ELSE [st EXCEPT !.notifications = Delete(@, messageId)]

accept(st, messageId, action) ==
    IF messageId = "" THEN st
    ELSE LET removed == [st EXCEPT !.notifications = Delete(@, messageId)]
         IN  IF messageId \notin DOMAIN st.resultPromises THEN removed
             ELSE [removed EXCEPT
                      !.resultPromises = Delete(@, messageId),
                      !.deferreds = resolve(@, st.resultPromises[messageId], action),
                      !.openState = IF DOMAIN removed.notifications = {} THEN FALSE ELSE @]

clear(st, messageId) == accept(st, messageId, "undefined")

\* Promise.all over the notifications: clear runs for each of them in turn
RECURSIVE clearEach(_, _)
clearEach(st, ids) ==
    IF ids = {} THEN st
    ELSE LET id == CHOOSE x \in ids : TRUE
         IN  clearEach(clear(st, id), ids \ {id})

clearAll(st) == clearEach([st EXCEPT !.openState = FALSE], DOMAIN st.notifications)

showMessageAlways(st, plainMessage, preference) ==
    LET messageId == getMessageId(plainMessage)
        d == Len(st.deferreds) + 1
        actions == Distinct(plainMessage.actions)
        timeout == IF plainMessage.timeout # 0 THEN plainMessage.timeout ELSE preference
    IN  [st EXCEPT
            !.deferreds = Append(@, Pending),
            !.resultPromises = Set(@, messageId, d),
            !.notifications = Set(@, messageId,
                [messageId |-> messageId, message |-> <<"rendered", plainMessage.text>>,
                 type |-> toNotificationType(plainMessage.type), actions |-> actions,
                 progress |-> NoProgress]),
            !.openState = TRUE,
            !.timers = IF actions = <<>> /\ timeout > 0
                       THEN @ \cup {[messageId |-> messageId, by |-> d]} ELSE @,
            !.result = d]

showMessageIgnoresPreference(st, plainMessage, preference) ==
    LET messageId == getMessageId(plainMessage)
    IN  IF messageId \in DOMAIN st.resultPromises
        THEN [st EXCEPT !.result = st.resultPromises[messageId]]
        ELSE LET d == Len(st.deferreds) + 1
                 actions == Distinct(plainMessage.actions)
             IN  [st EXCEPT
                     !.deferreds = Append(@, Pending),
                     !.resultPromises = Set(@, messageId, d),
                     !.notifications = Set(@, messageId,
                         [messageId |-> messageId,
                          message |-> <<"rendered", plainMessage.text>>,
                          type |-> toNotificationType(plainMessage.type),
                          actions |-> actions,
                          progress |-> NoProgress]),
                     !.openState = TRUE,
                     !.timers = IF actions = <<>> /\ plainMessage.timeout > 0
                                THEN @ \cup {[messageId |-> messageId, by |-> d]} ELSE @,
                     !.result = d]

\* plainMessage.timeout = 0 stands for no options.timeout (0 and undefined are both falsy)
showMessage(st, plainMessage, preference) ==
    LET messageId == getMessageId(plainMessage)
    IN  IF messageId \in DOMAIN st.resultPromises
        THEN [st EXCEPT !.result = st.resultPromises[messageId]]
        ELSE LET d == Len(st.deferreds) + 1
                 actions == Distinct(plainMessage.actions)
                 timeout == IF plainMessage.timeout # 0 THEN plainMessage.timeout
                            ELSE preference
             IN  [st EXCEPT
                     !.deferreds = Append(@, Pending),
                     !.resultPromises = Set(@, messageId, d),
                     !.notifications = Set(@, messageId,
                         [messageId |-> messageId,
                          message |-> <<"rendered", plainMessage.text>>,
                          type |-> toNotificationType(plainMessage.type),
                          actions |-> actions,
                          progress |-> NoProgress]),
                     !.openState = TRUE,
                     !.timers = IF actions = <<>> /\ timeout > 0
                                THEN @ \cup {[messageId |-> messageId, by |-> d]} ELSE @,
                     !.result = d]

showProgress(st, messageId, plainMessage, cancellationToken) ==
    IF messageId \in DOMAIN st.resultPromises
    THEN [st EXCEPT !.result = st.resultPromises[messageId]]
    ELSE LET d == Len(st.deferreds) + 1
         IN  [st EXCEPT
                 !.deferreds = Append(@, Pending),
                 !.resultPromises = Set(@, messageId, d),
                 !.notifications = Set(@, messageId,
                     [messageId |-> messageId,
                      message |-> <<"rendered", plainMessage.text>>,
                      type |-> toNotificationType(plainMessage.type),
                      actions |-> Distinct(plainMessage.actions),
                      progress |-> 0]),
                 !.openState = TRUE,
                 !.listeners = @ \cup {[messageId |-> messageId,
                                        token |-> cancellationToken, by |-> d]},
                 !.result = d]

reportProgress(st, messageId, update, isCancellationRequested) ==
    IF messageId \notin DOMAIN st.notifications THEN st
    ELSE IF isCancellationRequested THEN clear(st, messageId)
    ELSE [st EXCEPT
             !.notifications[messageId].message =
                 IF update.message # "" THEN <<"raw", update.message>> ELSE @,
             !.notifications[messageId].progress = toPlainProgress(update)]

\* the callbacks of the listeners ls run, each accepting its message with Cancel
RECURSIVE fire(_, _)
fire(st, ls) ==
    IF ls = {} THEN st
    ELSE LET l == CHOOSE x \in ls : TRUE
         IN  fire(accept(st, l.messageId, "Cancel"), ls \ {l})

----------------------------------------------------------------------------
(* NotificationManagerImpl: inputs *)

Preferences == {0, 30}

Messages ==
    {[type |-> "Info", text |-> "saved", actions |-> <<>>, timeout |-> t] : t \in {0, 5}}
    \cup {[type |-> "Error", text |-> "failed", actions |-> <<"Retry", "Retry">>,
           timeout |-> 0]}

ProgressIds == {"p1"}

ProgressMessages ==
    {[type |-> "Progress", text |-> "building", actions |-> <<"Cancel">>, timeout |-> 0]}

CancellationTokens == {"t1"}

Updates == {[message |-> "", work |-> <<>>], [message |-> "half", work |-> <<1, 2>>]}

MessageIds == {getMessageId(m) : m \in Messages} \cup ProgressIds

Actions == {"Retry"}

----------------------------------------------------------------------------
(* NotificationManagerImpl: steps *)

Becomes(st) ==
    /\ notifications' = st.notifications
    /\ resultPromises' = st.resultPromises
    /\ deferreds' = st.deferreds
    /\ timers' = st.timers
    /\ listeners' = st.listeners
    /\ openState' = st.openState

\* the call asks for a timeout: no actions, and options.timeout or else the preference
\* is greater than 0
Timed(plainMessage, preference) ==
    /\ Distinct(plainMessage.actions) = <<>>
    /\ (IF plainMessage.timeout # 0 THEN plainMessage.timeout ELSE preference) > 0

\* showMessage returns result.promise itself
ShowMessage(m, preference) ==
    /\ Len(returned) < MaxShows
    /\ LET st == showMessage(Manager, m, preference)
       IN  /\ Becomes(st)
           /\ returned' = Append(returned, [id |-> getMessageId(m), deferred |-> st.result,
                                            promise |-> <<"deferred", st.result>>,
                                            timed |-> Timed(m, preference)])
    /\ UNCHANGED <<cancelled, registryVars, arg, out, bridgeVars>>

\* showProgress is an async function: each call returns a promise of its own, which
\* settles as result.promise does
ShowProgress(id, m, token) ==
    /\ Len(returned) < MaxShows
    /\ LET st == showProgress(Manager, id, m, token)
       IN  /\ Becomes(st)
           /\ returned' = Append(returned, [id |-> id, deferred |-> st.result,
                                            promise |-> <<"async", Len(returned) + 1>>,
                                            timed |-> FALSE])
    /\ UNCHANGED <<cancelled, registryVars, arg, out, bridgeVars>>

Accept(id, action) ==
    /\ Becomes(accept(Manager, id, action))
    /\ UNCHANGED <<cancelled, returned, registryVars, arg, out, bridgeVars>>

Clear(id) ==
    /\ Becomes(clear(Manager, id))
    /\ UNCHANGED <<cancelled, returned, registryVars, arg, out, bridgeVars>>

ClearAll ==
    /\ Becomes(clearAll(Manager))
    /\ UNCHANGED <<cancelled, returned, registryVars, arg, out, bridgeVars>>

Hide ==
    /\ openState' = FALSE
    /\ UNCHANGED <<notifications, resultPromises, deferreds, timers, listeners, cancelled,
                   returned, registryVars, arg, out, bridgeVars>>

Toggle ==
    /\ openState' = ~openState
    /\ UNCHANGED <<notifications, resultPromises, deferreds, timers, listeners, cancelled,
                   returned, registryVars, arg, out, bridgeVars>>

\* the timeout set by showMessage elapses: its callback clears the message id
TimerFires(t) ==
    /\ t \in timers
    /\ Becomes(clear([Manager EXCEPT !.timers = @ \ {t}], t.messageId))
    /\ UNCHANGED <<cancelled, returned, registryVars, arg, out, bridgeVars>>

\* the owner of a token cancels it: the listeners on it run at once
CancelToken(token) ==
    /\ token \notin cancelled
    /\ cancelled' = cancelled \cup {token}
    /\ LET ls == {l \in listeners : l.token = token}
       IN  Becomes(fire([Manager EXCEPT !.listeners = @ \ ls], ls))
    /\ UNCHANGED <<returned, registryVars, arg, out, bridgeVars>>

\* a listener registered on a token that was cancelled already runs in a later task
ListenerFires(l) ==
    /\ l \in listeners
    /\ l.token \in cancelled
    /\ Becomes(fire([Manager EXCEPT !.listeners = @ \ {l}], {l}))
    /\ UNCHANGED <<cancelled, returned, registryVars, arg, out, bridgeVars>>

ReportProgress(id, update, token) ==
    /\ Becomes(reportProgress(Manager, id, update, token \in cancelled))
    /\ UNCHANGED <<cancelled, returned, registryVars, arg, out, bridgeVars>>

InitNotify ==
    /\ InitRegistry
    /\ patternState = "pending"
    /\ problemPatterns = PatternTable({})
    /\ arg = AbsentFileLocation
    /\ out = NoResult
    /\ InitManager
    /\ InitBridge

NextNotify ==
    \/ \E m \in Messages, preference \in Preferences : ShowMessage(m, preference)
    \/ \E id \in ProgressIds, m \in ProgressMessages, token \in CancellationTokens :
           ShowProgress(id, m, token)
    \/ \E id \in MessageIds, action \in Actions : Accept(id, action)
    \/ \E id \in MessageIds : Clear(id)
    \/ ClearAll
    \/ Hide
    \/ Toggle
    \/ \E t \in timers : TimerFires(t)
    \/ \E token \in CancellationTokens : CancelToken(token)
    \/ \E l \in listeners : ListenerFires(l)
    \/ \E id \in ProgressIds, update \in Updates, token \in CancellationTokens :
           ReportProgress(id, update, token)

SpecNotify == InitNotify /\ [][NextNotify]_vars

\* every timer that showMessage can set: those of the messages without actions
AllTimers ==
    {[messageId |-> getMessageId(m), by |-> d] :
        m \in {x \in Messages : Distinct(x.actions) = <<>>}, d \in 1..MaxShows}

\* a timeout that was set elapses sooner or later; nothing obliges anyone to call the
\* manager
SpecNotifyFair == SpecNotify /\ \A t \in AllTimers : WF_vars(TimerFires(t))

----------------------------------------------------------------------------
(* NotificationExtImpl and NotificationMainImpl: progress over the RPC proxy *)

\* a Progress handle as messageService.showProgress returns it: not cancelled, nothing
\* reported
NewProgress == [cancelled |-> FALSE, reported |-> <<>>]

\* the fields of NotificationMainImpl and the handles it holds, as one value
Main == [progressMap |-> progressMap, progress2Work |-> progress2Work, handles |-> handles]

Min(a, b) == IF a <= b THEN a ELSE b

\* the part of $startProgress after its await: progress is handle number id
startProgress(st, id) ==
    [st EXCEPT !.progressMap = Set(@, id, id), !.progress2Work = Set(@, id, 0)]

stopProgress(st, id) ==
    IF id \notin DOMAIN st.progressMap THEN st
    ELSE [st EXCEPT
             !.handles[st.progressMap[id]].cancelled = TRUE,
             !.progressMap = Delete(@, id),
             !.progress2Work = Delete(@, id)]

\* item.increment is <<n>>, or <<>> when absent; work is <<done, total>> or absent
updateProgress(st, id, item) ==
    IF id \notin DOMAIN st.progressMap THEN st
    ELSE LET work == IF id \in DOMAIN st.progress2Work THEN st.progress2Work[id] ELSE 0
             increment == IF item.increment = <<>> THEN 0 ELSE item.increment[1]
             done == Min(work + increment, 100)
         IN  [st EXCEPT
                 !.progress2Work = Set(@, id, done),
                 !.handles[st.progressMap[id]].reported =
                     <<[message |-> item.message,
                        work |-> IF done # 0 THEN <<done, 100>> ELSE <<>>]>>]

\* a call of the proxy
Call(op, i, id, item) == [op |-> op, call |-> i, id |-> id, item |-> item]

NoItem == [message |-> "", increment |-> <<>>]

\* progressEnd: $stopProgress is sent, then the token source is cancelled
progressEnd(t) == [t EXCEPT !.stops = @ + 1, !.cancels = @ + 1]

createProgressNoCatch(t, behaviour) ==
    IF behaviour = "throws"
    THEN [t EXCEPT !.pc = "done", !.outcome = "thrown", !.result = "thrown"]
    ELSE [t EXCEPT !.pc = "running"]

\* createProgress calls the task: it throws, or returns its promise, to which
\* progressEnd is attached; what is thrown rejects withProgress
createProgress(t, behaviour) ==
    IF behaviour = "throws"
    THEN progressEnd([t EXCEPT !.pc = "done", !.outcome = "thrown", !.result = "thrown"])
    ELSE [t EXCEPT !.pc = "running"]

Behaviours == {"throws", "returns"}

Outcomes == {"fulfilled", "rejected"}

Items == {[message |-> "step", increment |-> n] : n \in {<<>>, <<0>>, <<60>>, <<-30>>}}

MainBecomes(st) ==
    /\ progressMap' = st.progressMap
    /\ progress2Work' = st.progress2Work
    /\ handles' = st.handles

\* withProgress up to its await of $startProgress; call i is the i-th call made
WithProgress(i) ==
    /\ tasks[i].pc = "idle"
    /\ \A j \in 1..(i - 1) : tasks[j].pc # "idle"
    /\ tasks' = [tasks EXCEPT ![i].pc = "starting"]
    /\ rpc' = Append(rpc, Call("start", i, 0, NoItem))
    /\ UNCHANGED <<starting, progressMap, progress2Work, handles, reports,
                   registryVars, arg, out, notifyVars>>

\* $startProgress up to its await: messageService.showProgress makes a Progress
StartProgress ==
    /\ rpc # <<>>
    /\ Head(rpc).op = "start"
    /\ handles' = Append(handles, NewProgress)
    /\ starting' = starting \cup {[call |-> Head(rpc).call, id |-> Len(handles) + 1]}
    /\ rpc' = Tail(rpc)
    /\ UNCHANGED <<tasks, progressMap, progress2Work, reports,
                   registryVars, arg, out, notifyVars>>

\* $startProgress after its await: the maps are set and the id goes back to withProgress
StartProgressResumes(s) ==
    /\ s \in starting
    /\ starting' = starting \ {s}
    /\ MainBecomes(startProgress(Main, s.id))
    /\ tasks' = [tasks EXCEPT ![s.call].pc = "started", ![s.call].id = s.id]
    /\ UNCHANGED <<rpc, reports, registryVars, arg, out, notifyVars>>

\* withProgress after its await: createProgress
CreateProgress(i, behaviour) ==
    /\ tasks[i].pc = "started"
    /\ LET t == createProgress(tasks[i], behaviour)
       IN  /\ tasks' = [tasks EXCEPT ![i] = t]
           /\ rpc' = IF t.stops > tasks[i].stops
                     THEN Append(rpc, Call("stop", i, t.id, NoItem)) ELSE rpc
    /\ UNCHANGED <<starting, progressMap, progress2Work, handles, reports,
                   registryVars, arg, out, notifyVars>>

\* the promise the task returned fulfils or rejects
TaskSettles(i, outcome) ==
    /\ tasks[i].pc = "running"
    /\ tasks' = [tasks EXCEPT ![i].pc = "settled", ![i].outcome = outcome]
    /\ UNCHANGED <<rpc, starting, progressMap, progress2Work, handles, reports,
                   registryVars, arg, out, notifyVars>>

\* the reaction attached to the task's promise runs: progressEnd(id)
RunProgressEnd(i) ==
    /\ tasks[i].pc = "settled"
    /\ tasks' = [tasks EXCEPT ![i] = [progressEnd(@) EXCEPT !.pc = "ended"]]
    /\ rpc' = Append(rpc, Call("stop", i, tasks[i].id, NoItem))
    /\ UNCHANGED <<starting, progressMap, progress2Work, handles, reports,
                   registryVars, arg, out, notifyVars>>

\* withProgress settles as the task's promise did
WithProgressSettles(i) ==
    /\ tasks[i].pc = "ended"
    /\ tasks' = [tasks EXCEPT ![i].pc = "done", ![i].result = tasks[i].outcome]
    /\ UNCHANGED <<rpc, starting, progressMap, progress2Work, handles, reports,
                   registryVars, arg, out, notifyVars>>

\* the task, which keeps the progress object, calls progress.report(item)
Report(i, item) ==
    /\ tasks[i].pc \in {"running", "settled", "ended", "done"}
    /\ reports < MaxReports
    /\ reports' = reports + 1
    /\ rpc' = Append(rpc, Call("update", i, tasks[i].id, item))
    /\ UNCHANGED <<tasks, starting, progressMap, progress2Work, handles,
                   registryVars, arg, out, notifyVars>>

StopProgress ==
    /\ rpc # <<>>
    /\ Head(rpc).op = "stop"
    /\ MainBecomes(stopProgress(Main, Head(rpc).id))
    /\ rpc' = Tail(rpc)
    /\ UNCHANGED <<tasks, starting, reports, registryVars, arg, out, notifyVars>>

UpdateProgress ==
    /\ rpc # <<>>
    /\ Head(rpc).op = "update"
    /\ MainBecomes(updateProgress(Main, Head(rpc).id, Head(rpc).item))
    /\ rpc' = Tail(rpc)
    /\ UNCHANGED <<tasks, starting, reports, registryVars, arg, out, notifyVars>>

InitProgress ==
    /\ InitRegistry
    /\ patternState = "pending"
    /\ problemPatterns = PatternTable({})
    /\ arg = AbsentFileLocation
    /\ out = NoResult
    /\ InitManager
    /\ InitBridge

NextProgress ==
    \/ \E i \in 1..MaxTasks : WithProgress(i)
    \/ StartProgress
    \/ \E s \in starting : StartProgressResumes(s)
    \/ \E i \in 1..MaxTasks, behaviour \in Behaviours : CreateProgress(i, behaviour)
    \/ \E i \in 1..MaxTasks, outcome \in Outcomes : TaskSettles(i, outcome)
    \/ \E i \in 1..MaxTasks : RunProgressEnd(i)
    \/ \E i \in 1..MaxTasks : WithProgressSettles(i)
    \/ \E i \in 1..MaxTasks, item \in Items : Report(i, item)
    \/ StopProgress
    \/ UpdateProgress

SpecProgress == InitProgress /\ [][NextProgress]_vars

----------------------------------------------------------------------------
(* Properties of register and get *)

Named(c) == c.hasName /\ c.name # <<>>

\* call i runs its last step: register's promise completes
Completes(i) == calls[i].pc = "awaitMatcher" /\ calls'[i].pc = "done"

\* C1: once register(contribution) has completed, for a contribution with a non-empty
\* name (one that begins with '$' included), get(contribution.name) returns a matcher
\* whose name is contribution.name.
C1_RegisterThenGet ==
    [][\A i \in 1..MaxCalls :
          (Completes(i) /\ Named(calls[i].c)) =>
              LET r == get(matchers', calls[i].c.name)
              IN  Len(r) = 1 /\ r[1].name = calls[i].c.name]_vars

\* C2: an await of onReady(), made at any moment after construction, completes only
\* after fillDefaults has run.
C2_OnReadyAfterDefaults == waiter.pc = "done" => waiter.sawFilled

\* C3: register with an absent or empty name changes nothing: the map and getAll() stay
\* as they were, nothing is left to run later, and the promise fulfils.
C3_UnnamedRegisterNoChange ==
    [][\A i \in 1..MaxCalls :
          (calls[i].pc = "idle" /\ calls'[i].pc # "idle"
             /\ (~calls'[i].c.hasName \/ calls'[i].c.name = <<>>)) =>
              /\ matchers' = matchers
              /\ getAll(matchers') = getAll(matchers)
              /\ microtasks' = microtasks
              /\ patternReactions' = patternReactions
              /\ calls'[i].pc = "done"]_vars

C3_Witness ==
    \E i, j \in 1..MaxCalls :
        /\ calls[i].pc = "done" /\ ~calls[i].c.hasName
        /\ calls[j].pc = "done" /\ calls[j].c.hasName /\ calls[j].c.name = <<>>
        /\ Len(getAll(matchers)) = Len(DefaultNames)

\* C4: for every registered name foo, get("$" + foo) and get(foo) return the same
\* matcher; get strips exactly one leading '$'; get returns absent when there is no entry.
C4_SigilAlias ==
    /\ \A k \in 1..Len(matchers) :
          LET foo == matchers[k].name
          IN  /\ get(matchers, <<"$">> \o foo) = get(matchers, foo)
              /\ get(matchers, <<"$", "$">> \o foo) = Lookup(matchers, <<"$">> \o foo)
    /\ \A n \in NameInputs : n \notin Keys(matchers) /\ n[1] # "$" => get(matchers, n) = <<>>

\* C5: getAll() holds, for each key of the map, exactly the matcher stored under that
\* key: one element per registered name, none undefined, none twice.
C5_GetAllIsTheMap ==
    getAll(matchers) = [k \in 1..Len(matchers) |-> <<matchers[k]>>]

\* the names of the matchers in what getAll returned
NamesIn(all) == {all[k][1].name : k \in {j \in 1..Len(all) : Len(all[j]) = 1}}

\* C6: once the pattern registry is ready and the seeding has run, getAll() holds a
\* matcher for each of the eight default names, whatever was registered before; and the
\* msCompile matcher the seeding stores has fileLocation absolute and applyTo allDocuments.
C6_DefaultsSeeded ==
    /\ [](filled =>
            /\ patternState = "resolved"
            /\ {<<"msCompile">>, <<"lessCompile">>, <<"gulp-tsc">>, <<"jshint">>,
                <<"jshint-stylish">>, <<"eslint-compact">>, <<"eslint-stylish">>, <<"go">>}
                    \subseteq NamesIn(getAll(matchers)))
    /\ [][(~filled /\ filled') =>
            LET r == get(matchers', <<"msCompile">>)
            IN  /\ Len(r) = 1
                /\ r[1].fileLocation = "absolute"
                /\ r[1].applyTo = "allDocuments"]_vars

\* a contribution named msCompile was registered before the seeding, which replaced it
C6_Witness ==
    /\ filled
    /\ \E i \in 1..MaxCalls : calls[i].pc = "done" /\ calls[i].c.name = <<"msCompile">>
    /\ Lookup(matchers, <<"msCompile">>)[1].label = "Microsoft compiler problems"
    /\ matchers[1].name = <<"msCompile">>

\* C7: registering a name that has an entry overwrites it: getAll() keeps its length, the
\* entry holds the fields resolved from the new contribution, the other entries are
\* unchanged.
C7_ReRegisterOverwrites ==
    [][\A i \in 1..MaxCalls :
          (Completes(i) /\ calls[i].c.name \in Keys(matchers)) =>
              LET c == calls[i].c
                  e == Lookup(matchers', c.name)
              IN  /\ Len(getAll(matchers')) = Len(getAll(matchers))
                  /\ Len(e) = 1
                  /\ e[1].name = c.name
                  /\ e[1].label = c.label
                  /\ e[1].applyTo = (IF c.applyTo \in {"allDocuments", "openDocuments",
                                                        "closedDocuments"}
                                      THEN c.applyTo ELSE "allDocuments")
                  /\ e[1].fileLocation = getFileLocationKindAndPrefix(c.fileLocation).fileLocation
                  /\ e[1].pattern.kind = "array"
                  /\ c.pattern.kind = "string" =>
                        e[1].pattern.ps = problemPatterns[c.pattern.ref].ps
                  /\ c.pattern.kind = "array" => Len(e[1].pattern.ps) = Len(c.pattern.ps)
                  /\ c.pattern.kind = "absent" => e[1].pattern.ps = <<>>
                  /\ \A k \in 1..Len(matchers) :
                        matchers[k].name # c.name => matchers'[k] = matchers[k]]_vars

\* two completed registrations of one name with different fields; the entry is one of them
C7_Witness ==
    \E i, j \in 1..MaxCalls :
        /\ i # j
        /\ calls[i].pc = "done" /\ calls[j].pc = "done"
        /\ Named(calls[i].c) /\ calls[i].c.name = calls[j].c.name
        /\ calls[i].c.label # calls[j].c.label
        /\ Lookup(matchers, calls[j].c.name) = <<calls[j].m>>
        /\ Cardinality({k \in 1..Len(matchers) : matchers[k].name = calls[j].c.name}) = 1

----------------------------------------------------------------------------
(* Properties of the resolution *)

DefaultLocation == [fileLocation |-> "relative", filePrefix |-> "${workspaceFolder}"]

\* C8: ["absolute"] resolves to fileLocation absolute; ["relative", p] with p non-empty
\* to (relative, p); an absent fileLocation and every other array to the default
\* (relative, "${workspaceFolder}").
C8_ArrayFileLocation ==
    (out # NoResult /\ arg.kind \in {"absent", "array"}) =>
        IF arg.kind = "array" /\ arg.items = <<"absolute">>
        THEN out.fileLocation = "absolute"
        ELSE IF arg.kind = "array" /\ Len(arg.items) = 2 /\ arg.items[1] = "relative"
                /\ arg.items[2] # ""
        THEN out = [fileLocation |-> "relative", filePrefix |-> arg.items[2]]
        ELSE out = DefaultLocation

\* ["relative", "/src"] is resolved to (relative, "/src")
C8_Witness ==
    /\ arg = ArrayFileLocation(<<"relative", "/src">>)
    /\ out = [fileLocation |-> "relative", filePrefix |-> "/src"]

\* call i has resolved a pattern given as the name ref
ResolvedString(i) ==
    /\ calls[i].pc \in {"awaitMatcher", "done"}
    /\ Named(calls[i].c)
    /\ calls[i].c.pattern.kind = "string"

\* C9: a pattern given as a name whose entry in the pattern registry is a sequence of n
\* patterns resolves to those n patterns in the same order; an entry that is one pattern
\* resolves to that one pattern.
C9_StringPatternResolved ==
    \A i \in 1..MaxCalls :
        ResolvedString(i) =>
            LET entry == problemPatterns[calls[i].c.pattern.ref]
                got == calls[i].m.pattern
            IN  /\ entry.kind = "array" =>
                      /\ got.kind = "array"
                      /\ Len(got.ps) = Len(entry.ps)
                      /\ \A k \in 1..Len(entry.ps) : got.ps[k] = entry.ps[k]
                /\ entry.kind = "single" =>
                      /\ got.kind = "array"
                      /\ got.ps = <<entry.ps[1]>>

\* a 3-pattern entry and a 1-pattern entry, resolved and stored
C9_Witness ==
    \E i, j \in 1..MaxCalls :
        /\ calls[i].pc = "done" /\ calls[i].c.pattern.ref = "p3"
        /\ calls[j].pc = "done" /\ calls[j].c.pattern.ref = "p1"
        /\ Named(calls[i].c) /\ Named(calls[j].c) /\ calls[i].c.name # calls[j].c.name
        /\ Len(Lookup(matchers, calls[i].c.name)[1].pattern.ps) = 3
        /\ Len(Lookup(matchers, calls[j].c.name)[1].pattern.ps) = 1

\* C10: a pattern given as a name that has no entry in the pattern registry resolves to
\* the empty sequence, and register stores the matcher under its name and fulfils.
C10_UnknownPatternName ==
    /\ [](\A i \in 1..MaxCalls :
              (ResolvedString(i) /\ problemPatterns[calls[i].c.pattern.ref].kind = "undefined") =>
                  calls[i].m.pattern = [kind |-> "array", ps |-> <<>>])
    /\ [][\A i \in 1..MaxCalls :
              (Completes(i) /\ calls[i].c.pattern.kind = "string"
                 /\ problemPatterns[calls[i].c.pattern.ref].kind = "undefined") =>
                  LET e == Lookup(matchers', calls[i].c.name)
                  IN  /\ Len(e) = 1
                      /\ e[1].name = calls[i].c.name
                      /\ e[1].label = calls[i].c.label
                      /\ e[1].pattern = [kind |-> "array", ps |-> <<>>]]_vars

C10_Witness ==
    \E i \in 1..MaxCalls :
        /\ calls[i].pc = "done"
        /\ calls[i].c.pattern = StringPattern("nope")
        /\ Lookup(matchers, calls[i].c.name) = <<calls[i].m>>
        /\ calls[i].m.pattern.ps = <<>>
        /\ filled

----------------------------------------------------------------------------
(* Properties of the ordering, the failures and the seeding *)

EightDefaults == {"msCompile", "lessCompile", "gulp-tsc", "jshint", "jshint-stylish",
                  "eslint-compact", "eslint-stylish", "go"}

\* the seeding step
Seeds == ~filled /\ filled'

\* C11: fillDefaults runs, and a pattern name is looked up for a string pattern, only after
\* the promise of the pattern registry's onReady() has settled.
C11_NothingBeforePatternReady ==
    [][/\ Seeds => patternState = "resolved"
       /\ \A i \in 1..MaxCalls :
             (calls[i].pc = "awaitPattern" /\ calls'[i].pc # "awaitPattern") =>
                 patternState = "resolved"]_vars

C11_Witness ==
    /\ filled
    /\ patternState = "resolved"
    /\ \E i \in 1..MaxCalls :
          /\ calls[i].pc = "done"
          /\ calls[i].c.pattern = StringPattern("p3")
          /\ Len(calls[i].m.pattern.ps) = 3

\* C12: no register call is rejected, whatever the contribution; once the jobs have run
\* and the pattern registry is ready, every call that was made has fulfilled; get and
\* getAll return a matcher or absent in every state, before the seeding too.
C12_NeverRaises ==
    /\ \A i \in 1..MaxCalls : calls[i].pc # "rejected"
    /\ (microtasks = <<>> /\ patternState = "resolved") =>
          \A i \in 1..MaxCalls : calls[i].pc \in {"idle", "done"}
    /\ \A n \in {<<>>, <<"foo">>, <<"$", "foo">>, <<"$", "$", "foo">>, <<"msCompile">>} :
          Len(get(matchers, n)) <= 1
    /\ Len(getAll(matchers)) = Len(matchers)

\* a contribution without a name and one with an applyTo that is no kind, a malformed
\* fileLocation array and an unknown pattern name have both fulfilled
C12_Witness ==
    \E i, j \in 1..MaxCalls :
        /\ calls[i].pc = "done" /\ ~calls[i].c.hasName
        /\ calls[j].pc = "done"
        /\ calls[j].c.applyTo = "bogus"
        /\ calls[j].c.fileLocation = ArrayFileLocation(<<"relative">>)
        /\ calls[j].c.pattern = StringPattern("nope")
        /\ Len(get(matchers, calls[j].c.name)) = 1

\* C13, as claimed: before fillDefaults has run the map is empty, whatever register calls
\* have been made.
C13_EmptyBeforeSeeding == ~filled => matchers = <<>>

\* the calls that have stored their matcher without a pattern name to look up
StoredEarly ==
    {i \in 1..MaxCalls : calls[i].pc = "done" /\ Named(calls[i].c)
                          /\ calls[i].c.pattern.kind # "string"}

\* C13, amended: before fillDefaults has run the map holds exactly the matchers of the
\* completed register calls whose pattern is not a name; without such a call it is empty.
C13_OnlyEarlyRegistrationsBeforeSeeding ==
    ~filled =>
        /\ Keys(matchers) = {calls[i].c.name : i \in StoredEarly}
        /\ \A k \in 1..Len(matchers) : \E i \in StoredEarly : matchers[k] = calls[i].m

\* a matcher is stored before the seeding while a call with a pattern name still waits
C13_Witness ==
    /\ ~filled
    /\ Len(matchers) = 1
    /\ \E i \in 1..MaxCalls : calls[i].pc = "awaitPattern"
    /\ \E i \in 1..MaxCalls : calls[i].pc = "done" /\ calls[i].c.pattern.kind = "array"

\* C14: the map changes only in whole steps: the seeding applies its eight insertions at
\* once, a register applies its one insertion at once; no state lies between two of them.
C14_AtomicMutation ==
    [][matchers' # matchers =>
          \/ /\ Seeds
             /\ Keys(matchers') = Keys(matchers) \cup {<<n>> : n \in EightDefaults}
             /\ \A n \in EightDefaults : Len(Lookup(matchers', <<n>>)) = 1
             /\ \A n \in EightDefaults : Lookup(matchers', <<n>>)[1].label = DefaultLabels[n]
             /\ \A k \in 1..Len(matchers) :
                   matchers[k].name \notin {<<n>> : n \in EightDefaults} =>
                       matchers'[k] = matchers[k]
          \/ /\ filled' = filled
             /\ \E i \in 1..MaxCalls :
                   /\ Completes(i)
                   /\ Keys(matchers') = Keys(matchers) \cup {calls[i].c.name}
                   /\ Lookup(matchers', calls[i].c.name) = <<calls[i].m>>
                   /\ \A k \in 1..Len(matchers) :
                         matchers[k].name # calls[i].c.name => matchers'[k] = matchers[k]]_vars

\* seeded, with one registration before the seeding and one after it
C14_Witness ==
    /\ filled
    /\ Len(matchers) = Cardinality(EightDefaults) + 2
    /\ matchers[1].name = <<"foo">>
    /\ matchers[Len(matchers)].name = <<"$", "foo">>

\* C16: the seeding inserts a default whose pattern name is not in the pattern registry
\* with pattern undefined, not an empty sequence, and still inserts the other defaults;
\* so after it every default has a pattern only if all eight names were registered.
C16_MissingDefaultPattern ==
    [][Seeds =>
          /\ \A n \in EightDefaults :
                LET e == Lookup(matchers', <<n>>)
                IN  /\ Len(e) = 1
                    /\ problemPatterns[n].kind = "undefined" =>
                          (e[1].pattern.kind = "undefined" /\ e[1].pattern # ManyPatterns(<<>>))
                    /\ problemPatterns[n].kind # "undefined" => e[1].pattern = problemPatterns[n]
          /\ (\A k \in 1..Len(matchers') : matchers'[k].pattern.kind # "undefined") =>
                (\A n \in EightDefaults : problemPatterns[n].kind # "undefined")]_vars

C16_Witness ==
    /\ filled
    /\ problemPatterns["jshint"].kind = "undefined"
    /\ Lookup(matchers, <<"jshint">>)[1].pattern.kind = "undefined"
    /\ Lookup(matchers, <<"go">>)[1].pattern.kind = "single"
    /\ Len(matchers) = Cardinality(EightDefaults)

\* C17: last call wins: when register(A) is called before register(B) with the same name
\* and both have completed, get(name) returns the matcher resolved from B.  Stated for the
\* names get reads as they are and the seeding does not write.
C17_LastCallWins ==
    \A i, j \in 1..MaxCalls :
        (/\ i < j
         /\ calls[i].pc = "done" /\ calls[j].pc = "done"
         /\ Named(calls[i].c) /\ calls[i].c.name = calls[j].c.name
         /\ calls[j].c.name = <<"foo">>
         /\ \A k \in (j + 1)..MaxCalls : calls[k].c.name # <<"foo">>) =>
            get(matchers, calls[j].c.name) = <<calls[j].m>>

\* C15: a fileLocation that is one token: a token that names a kind (absolute, relative,
\* autoDetect) resolves to that kind, with the prefix "${workspaceFolder}" when the kind is
\* relative; any other token resolves to the default (relative, "${workspaceFolder}").
C15_StringFileLocation ==
    (out # NoResult /\ arg.kind = "string") =>
        IF arg.token \in {"absolute", "relative", "autoDetect"}
        THEN /\ out.fileLocation = arg.token
             /\ arg.token = "relative" => out.filePrefix = "${workspaceFolder}"
        ELSE out = DefaultLocation

C15_Witness ==
    /\ arg = StringFileLocation("autoDetect")
    /\ out.fileLocation = "autoDetect"

----------------------------------------------------------------------------
(* Properties of the notification manager *)

\* C18: whatever showMessage, showProgress, accept, clear, clearAll, reportProgress, timer
\* expiries and cancellation callbacks have run, notifications and resultPromises have the
\* same keys, and the Deferred kept for each key is still pending.
C18_SameKeys ==
    /\ DOMAIN notifications = DOMAIN resultPromises
    /\ \A id \in DOMAIN resultPromises : deferreds[resultPromises[id]].state = "pending"

\* a message is displayed after another was resolved, a timer is outstanding and a token
\* has been cancelled
C18_Witness ==
    /\ DOMAIN notifications # {}
    /\ \E d \in 1..Len(deferreds) : deferreds[d].state = "resolved"
    /\ timers # {}
    /\ cancelled # {}

\* C19: a timer set by one showMessage call removes only the notification that call
\* created: when a timer fires and a notification goes, the Deferred kept for the
\* notification is the one the timer's call created.
C19_TimerRemovesOwnNotification ==
    [][\A t \in timers \ timers' :
          (t.messageId \in DOMAIN notifications /\ t.messageId \notin DOMAIN notifications')
              => resultPromises[t.messageId] = t.by]_vars

\* a show call returns
Shows == Len(returned') = Len(returned) + 1

\* what the last show call returned
Shown == returned'[Len(returned')]

\* a show call for a message that was pending when it was made
ShowsAgain == Shows /\ Shown.id \in DOMAIN resultPromises

\* the call that created the Deferred d
FirstCall(d) == returned[CHOOSE k \in 1..Len(returned) :
                            /\ returned[k].deferred = d
                            /\ \A j \in 1..(k - 1) : returned[j].deferred # d]

\* the show call kept the manager as it was
NothingAdded ==
    /\ notifications' = notifications
    /\ resultPromises' = resultPromises
    /\ deferreds' = deferreds
    /\ timers' = timers
    /\ listeners' = listeners

\* accepting the pending message id with action a resolves the promise of every caller
\* that was given the message's Deferred
AcceptResolvesCallers ==
    \A id \in DOMAIN resultPromises, a \in {"Retry", "undefined", "Cancel"} :
        LET after == accept(Manager, id, a).deferreds
        IN  \A k \in 1..Len(returned) :
                returned[k].deferred = resultPromises[id]
                    => after[returned[k].deferred] = [state |-> "resolved", value |-> a]

\* C20 as stated: while a message is pending, every further showMessage or showProgress
\* for its id returns the very promise the first call returned and adds no notification,
\* timer or listener; accepting the message with action a resolves every caller's promise
\* with a.
C20_SamePromise ==
    /\ [][ShowsAgain =>
             /\ Shown.promise = FirstCall(resultPromises[Shown.id]).promise
             /\ NothingAdded]_vars
    /\ []AcceptResolvesCallers

\* C20, amended: while a message is pending, every further showMessage for its id returns
\* the promise the first call returned, and every further showProgress a promise settled
\* by the same Deferred; neither adds a notification, timer or listener; accepting the
\* message with action a resolves every caller's promise with a.
C20_Deduplicated ==
    /\ [][ShowsAgain =>
             /\ Shown.deferred = resultPromises[Shown.id]
             /\ Shown.promise[1] = "deferred"
                    => Shown.promise = FirstCall(resultPromises[Shown.id]).promise
             /\ NothingAdded]_vars
    /\ []AcceptResolvesCallers

\* two callers were given the same Deferred, and an accept resolved it with an action
C20_Witness ==
    \E j, k \in 1..Len(returned) :
        /\ j < k
        /\ returned[j].deferred = returned[k].deferred
        /\ deferreds[returned[k].deferred] = [state |-> "resolved", value |-> "Retry"]

\* call k was made, with no actions and a timeout greater than 0, and the promise it
\* returned is pending
TimedCall(k) ==
    /\ k <= Len(returned)
    /\ returned[k].timed
    /\ deferreds[returned[k].deferred].state = "pending"

\* the promise call k returned is resolved and no notification has the call's id
Settled(k) ==
    /\ k <= Len(returned)
    /\ deferreds[returned[k].deferred].state = "resolved"
    /\ returned[k].id \notin DOMAIN notifications

\* C21: every showMessage call with no actions and an effective timeout greater than 0
\* is eventually settled, given that timers fire: its promise is eventually resolved and
\* the notification with its id is eventually out of the notifications map.
C21_TimedCallsSettle == \A k \in 1..MaxShows : TimedCall(k) ~> Settled(k)

\* call k created the Deferred of its promise: no message with its id was pending
Creates(k) == \A j \in 1..(k - 1) : returned[j].deferred # returned[k].deferred

\* C21, amended: every showMessage call that finds no pending message with its id, has
\* no actions and an effective timeout greater than 0 is eventually settled, given that
\* timers fire: its promise is eventually resolved and the notification with its id is
\* eventually out of the notifications map.
C21_CreatingTimedCallsSettle ==
    \A k \in 1..MaxShows : (TimedCall(k) /\ Creates(k)) ~> Settled(k)

\* the timer of a timed call has fired and resolved the call's promise with undefined
C21_Witness ==
    \E k \in 1..Len(returned) :
        /\ returned[k].timed
        /\ Creates(k)
        /\ Settled(k)
        /\ deferreds[returned[k].deferred].value = "undefined"
        /\ [messageId |-> returned[k].id, by |-> returned[k].deferred] \notin timers

----------------------------------------------------------------------------
(* Properties of progress over the RPC proxy *)

\* the $stopProgress calls for id that the main side has yet to handle
StopsInFlight(id) == {k \in 1..Len(rpc) : rpc[k].op = "stop" /\ rpc[k].id = id}

\* C22: for every withProgress call that got its id, $stopProgress(id) is sent once and
\* the token is cancelled once, both when the task has ended (its promise fulfilled or
\* rejected, or the task threw) and never while it runs; withProgress settles with the
\* task's own result or error.
C22_StopOnceAtEnd ==
    \A i \in 1..MaxTasks :
        LET t == tasks[i]
        IN  /\ t.stops <= 1
            /\ t.cancels = t.stops
            /\ t.outcome = "none" => t.stops = 0
            /\ t.pc \in {"ended", "done"} => t.stops = 1
            /\ t.pc = "done" => (t.outcome # "none" /\ t.result = t.outcome)
            /\ t.id # 0 => Cardinality(StopsInFlight(t.id)) <= t.stops

\* a withProgress call has rejected as its task's promise did, after $stopProgress was
\* sent once and handled
C22_Witness ==
    \E i \in 1..MaxTasks :
        /\ tasks[i].pc = "done"
        /\ tasks[i].result = "rejected"
        /\ tasks[i].stops = 1
        /\ rpc = <<>>
        /\ handles[tasks[i].id].cancelled

\* the work reported to Progress handle h, if any was
ReportedDone(h) ==
    {handles[h].reported[k].work[1] :
        k \in {j \in 1..Len(handles[h].reported) : handles[h].reported[j].work # <<>>}}

\* C23: whatever $startProgress, $updateProgress and $stopProgress calls were made, with
\* positive, zero, negative or absent increments, the work recorded for each live id
\* and the done value reported to its handle are within 0..100; progressMap and
\* progress2Work have the same keys; $updateProgress and $stopProgress for an id that
\* is not live change nothing.
C23_WorkWithinRange ==
    /\ DOMAIN progressMap = DOMAIN progress2Work
    /\ \A id \in DOMAIN progress2Work : progress2Work[id] \in 0..100
    /\ \A id \in DOMAIN progressMap : ReportedDone(progressMap[id]) \subseteq 0..100
    /\ \A id \in (0..(MaxTasks + 1)) \ DOMAIN progressMap :
           /\ stopProgress(Main, id) = Main
           /\ \A item \in Items : updateProgress(Main, id, item) = Main

====
